---- MODULE Spec2Model ----
(***************************************************************************)
(* A model of the document analysis and scoring engine of barriertest.py:  *)
(* the markup is a sequence of parser events, BeautifulSoup's html.parser  *)
(* tree builder turns it into a tree, the nine checkers read the tree (and *)
(* the raw markup), and calculate_score aggregates their results.          *)
(*                                                                         *)
(* Text is a sequence of one-character strings, so that strip(), lower()   *)
(* and len() are computed and not assumed.  Python floats are IEEE-754     *)
(* doubles: they are modelled bit by bit (53-bit significands, round to    *)
(* nearest even), because int(15 * (1 - a / t)) is decided by the rounding.*)
(***************************************************************************)
EXTENDS Integers, Sequences, FiniteSets, TLC

VARIABLES pc, html_content, results, score_results

vars == <<pc, html_content, results, score_results>>

(***************************************************************************)
(* Python values                                                           *)
(***************************************************************************)
\* None, as a value that compares with text (a sequence of characters).
None == <<"None">>

NoAttrs == <<>>

Whitespace == {" ", "\n"}

RECURSIVE lstrip(_)
lstrip(s) ==
  IF s # <<>> /\ Head(s) \in Whitespace THEN lstrip(Tail(s)) ELSE s

RECURSIVE rstrip(_)
rstrip(s) ==
  IF s # <<>> /\ s[Len(s)] \in Whitespace
    THEN rstrip(SubSeq(s, 1, Len(s) - 1))
    ELSE s

\* str.strip()
strip(s) == rstrip(lstrip(s))

\* the upper-case letters the model's texts use, with their lower-case form
LowerOf ==
  [c \in {"C", "R", "M", "L", "H", "T", "N", "W"} |->
     CASE c = "C" -> "c" [] c = "R" -> "r" [] c = "M" -> "m" [] c = "L" -> "l"
       [] c = "H" -> "h" [] c = "T" -> "t" [] c = "N" -> "n" [] c = "W" -> "w"]

\* str.lower()
lower(s) == [i \in 1..Len(s) |-> IF s[i] \in DOMAIN LowerOf THEN LowerOf[s[i]] ELSE s[i]]

\* `needle in haystack` for two texts
contains(haystack, needle) ==
  \E i \in 1..(Len(haystack) - Len(needle) + 1) :
     SubSeq(haystack, i, i + Len(needle) - 1) = needle

RECURSIVE split(_)
\* str.split(): the runs of characters between whitespace
split(s) ==
  LET t == lstrip(s)
      word == CHOOSE n \in 0..Len(t) :
                 /\ \A i \in 1..n : t[i] \notin Whitespace
                 /\ (n = Len(t) \/ t[n + 1] \in Whitespace)
  IN IF t = <<>> THEN <<>> ELSE <<SubSeq(t, 1, word)>> \o split(SubSeq(t, word + 1, Len(t)))

\* truthiness of a value that is None or a text
truthy(v) == v # None /\ v # <<>>

(***************************************************************************)
(* The markup and its tree (BeautifulSoup(html_content, 'html.parser'))    *)
(***************************************************************************)
\* parser events of the markup text
StartTag(name, attrs) == [type |-> "start", name |-> name, attrs |-> attrs, data |-> <<>>]
EndTag(name) == [type |-> "end", name |-> name, attrs |-> NoAttrs, data |-> <<>>]
Data(s) == [type |-> "data", name |-> "#text", attrs |-> NoAttrs, data |-> s]

\* elements that never have content: the tree builder closes them at once
VoidElements ==
  {"area", "base", "br", "col", "embed", "hr", "img", "input", "keygen",
   "link", "meta", "param", "source", "track", "wbr"}

\* an end tag closes the most recent open element of that name and all that
\* were opened inside it; with no such element open it is ignored
popToTag(nodes, stack, name) ==
  LET open == {i \in 1..Len(stack) : nodes[stack[i]].name = name}
  IN IF open = {} THEN stack
     ELSE LET top == CHOOSE i \in open : \A j \in open : j <= i
          IN SubSeq(stack, 1, top - 1)

\* the attributes of a tag: the value of class is the list of its class names
tag_attrs(attrs) ==
  [a \in DOMAIN attrs |-> IF a = "class" THEN split(attrs[a]) ELSE attrs[a]]

RECURSIVE feed(_, _, _)
feed(tokens, nodes, stack) ==
  IF tokens = <<>> THEN nodes
  ELSE
    LET t == Head(tokens)
        parent == IF stack = <<>> THEN 0 ELSE stack[Len(stack)]
        node == [name |-> t.name, parent |-> parent, attrs |-> tag_attrs(t.attrs),
                 string |-> t.data]
    IN CASE t.type = "start" ->
              feed(Tail(tokens), Append(nodes, node),
                   IF t.name \in VoidElements THEN stack
                   ELSE Append(stack, Len(nodes) + 1))
         [] t.type = "end" ->
              feed(Tail(tokens), nodes, popToTag(nodes, stack, t.name))
         [] OTHER ->
              feed(Tail(tokens), Append(nodes, node), stack)

\* the tree: the nodes in document order, each with its parent (0: the root)
BeautifulSoup(markup) == feed(markup, <<>>, <<>>)

IsTag(soup, i) == soup[i].name # "#text"

RECURSIVE inside(_, _, _)
\* node i lies inside node root (root = 0: the whole document)
inside(soup, i, root) ==
  IF root = 0 THEN TRUE
  ELSE IF soup[i].parent = 0 THEN FALSE
  ELSE soup[i].parent = root \/ inside(soup, soup[i].parent, root)

Indices(soup) == [i \in 1..Len(soup) |-> i]

\* root.find_all(names): the elements inside root with one of the names, in
\* document order
find_all(soup, root, names) ==
  SelectSeq(Indices(soup),
            LAMBDA i : IsTag(soup, i) /\ soup[i].name \in names /\ inside(soup, i, root))

\* soup.find_all(): every element
find_all_tags(soup) == SelectSeq(Indices(soup), LAMBDA i : IsTag(soup, i))

has_attr(soup, i, a) == a \in DOMAIN soup[i].attrs

\* tag.get(a, default)
get(soup, i, a, default) ==
  IF a \in DOMAIN soup[i].attrs THEN soup[i].attrs[a] ELSE default

\* soup.find_all(attrs={a: v})
find_all_attr(soup, a, v) ==
  SelectSeq(Indices(soup),
            LAMBDA i : IsTag(soup, i) /\ has_attr(soup, i, a) /\ soup[i].attrs[a] = v)

\* root.find(name, attrs): does root hold such an element?
found(soup, root, names) == find_all(soup, root, names) # <<>>

RECURSIVE has_parent(_, _, _)
\* tag.find_parent(name) is not None
has_parent(soup, i, name) ==
  IF soup[i].parent = 0 THEN FALSE
  ELSE soup[soup[i].parent].name = name \/ has_parent(soup, soup[i].parent, name)

RECURSIVE joined(_)
joined(texts) == IF texts = <<>> THEN <<>> ELSE Head(texts) \o joined(Tail(texts))

\* tag.get_text(strip=True): the strings inside the tag, each stripped, the
\* empty ones dropped, concatenated
get_text(soup, root) ==
  LET strings == SelectSeq(Indices(soup),
                   LAMBDA i : ~IsTag(soup, i) /\ inside(soup, i, root)
                              /\ strip(soup[i].string) # <<>>)
  IN joined([k \in 1..Len(strings) |-> strip(soup[strings[k]].string)])

(***************************************************************************)
(* check_img_alt_text                                                      *)
(***************************************************************************)
\* a variant that takes a whitespace-only alt for alt text
img_missing_alt_without_strip(soup, img) == ~truthy(get(soup, img, "alt", None))

img_missing_alt(soup, img) ==
  \/ ~truthy(get(soup, img, "alt", None))
  \/ strip(get(soup, img, "alt", None)) = <<>>

check_img_alt_text(soup) ==
  LET images == find_all(soup, 0, {"img"})
      missing == SelectSeq(images, LAMBDA img : img_missing_alt(soup, img))
      missing_alt == [k \in 1..Len(missing) |-> get(soup, missing[k], "src", <<"No source">>)]
  IN [total_images |-> Len(images),
      images_with_alt |-> Len(images) - Len(missing_alt),
      missing_alt |-> missing_alt]

(***************************************************************************)
(* The texts the code compares with, as sequences of characters            *)
(***************************************************************************)
S_color == <<"c", "o", "l", "o", "r", ":">>

S_bgcolor == <<"b", "a", "c", "k", "g", "r", "o", "u", "n", "d", "-", "c", "o", "l", "o", "r", ":">>

S_hidden == <<"h", "i", "d", "d", "e", "n">>

S_submit == <<"s", "u", "b", "m", "i", "t">>

S_button == <<"b", "u", "t", "t", "o", "n">>

S_image == <<"i", "m", "a", "g", "e">>

S_text == <<"t", "e", "x", "t">>

S_banner == <<"b", "a", "n", "n", "e", "r">>

S_navigation == <<"n", "a", "v", "i", "g", "a", "t", "i", "o", "n">>

S_main == <<"m", "a", "i", "n">>

S_complementary == <<"c", "o", "m", "p", "l", "e", "m", "e", "n", "t", "a", "r", "y">>

S_contentinfo == <<"c", "o", "n", "t", "e", "n", "t", "i", "n", "f", "o">>

S_click_here == <<"c", "l", "i", "c", "k", " ", "h", "e", "r", "e">>

S_read_more == <<"r", "e", "a", "d", " ", "m", "o", "r", "e">>

S_more == <<"m", "o", "r", "e">>

S_link == <<"l", "i", "n", "k">>

S_here == <<"h", "e", "r", "e">>

S_this == <<"t", "h", "i", "s">>

S_this_link == <<"t", "h", "i", "s", " ", "l", "i", "n", "k">>

S_learn_more == <<"l", "e", "a", "r", "n", " ", "m", "o", "r", "e">>

S_sr_only == <<"s", "r", "-", "o", "n", "l", "y">>

S_new_window == <<"n", "e", "w", " ", "w", "i", "n", "d", "o", "w">>

S_new_tab == <<"n", "e", "w", " ", "t", "a", "b">>

S_blank == <<"_", "b", "l", "a", "n", "k">>

(***************************************************************************)
(* check_heading_structure                                                 *)
(***************************************************************************)
Digit == [d \in 0..9 |->
  CASE d = 0 -> "0" [] d = 1 -> "1" [] d = 2 -> "2" [] d = 3 -> "3" [] d = 4 -> "4"
    [] d = 5 -> "5" [] d = 6 -> "6" [] d = 7 -> "7" [] d = 8 -> "8" [] d = 9 -> "9"]

RECURSIVE str(_)
\* str(n) for an int n >= 0, as f-strings format it
str(n) == IF n < 10 THEN <<Digit[n]>> ELSE Append(str(n \div 10), Digit[n % 10])

\* an f-string: its constant text and the values formatted into it
Message(msg, args) == [msg |-> msg, args |-> args]

heading_tag(level) ==
  CASE level = 1 -> "h1" [] level = 2 -> "h2" [] level = 3 -> "h3"
    [] level = 4 -> "h4" [] level = 5 -> "h5" [] level = 6 -> "h6"

RECURSIVE collect_headings(_, _)
\* the loop over the levels 1..6: the headings of each level are appended
\* after those of the levels below it
collect_headings(soup, level) ==
  IF level > 6 THEN <<>>
  ELSE LET tags == find_all(soup, 0, {heading_tag(level)})
       IN [k \in 1..Len(tags) |-> [level |-> level, text |-> get_text(soup, tags[k])]]
          \o collect_headings(soup, level + 1)

NoH1Message == "No H1 heading found. Each page should have exactly one H1 heading."

MultipleH1Message ==
  "Multiple H1 headings found ({}). Each page should have exactly one H1 heading."

SkipMessage == "Heading level skip: H{} to H{}"

h1_issues(h1) ==
  IF h1 = 0 THEN <<Message(NoH1Message, <<>>)>>
  ELSE IF h1 > 1 THEN <<Message(MultipleH1Message, <<str(h1)>>)>>
  ELSE <<>>

RECURSIVE skip_issues_any_increase(_, _)
\* a variant that takes every step to a lower-ranked heading for a skip
skip_issues_any_increase(headings, prev_level) ==
  IF headings = <<>> THEN <<>>
  ELSE LET level == Head(headings).level
       IN (IF level > prev_level /\ prev_level > 0
             THEN <<Message(SkipMessage, <<str(prev_level), str(level)>>)>>
             ELSE <<>>)
          \o skip_issues_any_increase(Tail(headings),
                                      IF level > prev_level THEN level ELSE prev_level)

RECURSIVE skip_issues(_, _)
\* the loop over headings with prev_level, the highest level so far
skip_issues(headings, prev_level) ==
  IF headings = <<>> THEN <<>>
  ELSE LET level == Head(headings).level
       IN (IF level > prev_level + 1 /\ prev_level > 0
             THEN <<Message(SkipMessage, <<str(prev_level), str(level)>>)>>
             ELSE <<>>)
          \o skip_issues(Tail(headings), IF level > prev_level THEN level ELSE prev_level)

check_heading_structure(soup) ==
  LET count(level) == Len(find_all(soup, 0, {heading_tag(level)}))
      headings == collect_headings(soup, 1)
  IN [heading_levels |-> [h1 |-> count(1), h2 |-> count(2), h3 |-> count(3),
                          h4 |-> count(4), h5 |-> count(5), h6 |-> count(6)],
      headings |-> headings,
      issues |-> h1_issues(count(1)) \o skip_issues(headings, 0)]

(***************************************************************************)
(* check_color_contrast: pattern matching over the raw markup              *)
(***************************************************************************)
\* re.findall(attr=["']([^"']*)["']): the values the markup gives the
\* attribute, in source order
attribute_matches(markup, a) ==
  LET hits == SelectSeq([i \in 1..Len(markup) |-> i],
                        LAMBDA i : markup[i].type = "start" /\ a \in DOMAIN markup[i].attrs)
  IN [k \in 1..Len(hits) |-> markup[hits[k]].attrs[a]]

RECURSIVE until_semicolon(_)
until_semicolon(s) ==
  IF s = <<>> \/ Head(s) = ";" THEN <<>> ELSE <<Head(s)>> \o until_semicolon(Tail(s))

\* re.search(prop + r'\s*([^;]+)', style): group 1 of the first match, or None
property_match(style, prop) ==
  LET at(i) == i + Len(prop) - 1 <= Len(style)
               /\ SubSeq(style, i, i + Len(prop) - 1) = prop
               /\ until_semicolon(SubSeq(style, i + Len(prop), Len(style))) # <<>>
      starts == {i \in 1..Len(style) : at(i)}
  IN IF starts = {} THEN None
     ELSE LET first == CHOOSE i \in starts : \A j \in starts : i <= j
              run == until_semicolon(SubSeq(style, first + Len(prop), Len(style)))
          IN IF lstrip(run) # <<>> THEN lstrip(run) ELSE <<run[Len(run)]>>

RECURSIVE style_color_props(_)
style_color_props(styles) ==
  IF styles = <<>> THEN <<>>
  ELSE LET color_match == property_match(Head(styles), S_color)
           bg_color_match == property_match(Head(styles), S_bgcolor)
       IN (IF color_match # None THEN <<Message("Text color: {}", <<color_match>>)>> ELSE <<>>)
          \o (IF bg_color_match # None
                THEN <<Message("Background color: {}", <<bg_color_match>>)>> ELSE <<>>)
          \o style_color_props(Tail(styles))

RECURSIVE count_classes(_, _)
\* the dict of class names with their counts, in first-seen order
count_classes(names, counted) ==
  IF names = <<>> THEN counted
  ELSE LET cls == Head(names)
           seen == {k \in 1..Len(counted) : counted[k].cls = cls}
       IN count_classes(Tail(names),
            IF seen = {} THEN Append(counted, [cls |-> cls, count |-> 1])
            ELSE [k \in 1..Len(counted) |->
                    IF k \in seen THEN [counted[k] EXCEPT !.count = @ + 1] ELSE counted[k]])

RECURSIVE sorted_by_count_last_first(_)
\* a variant that puts, of the items with the same count, the last one first
sorted_by_count_last_first(items) ==
  IF items = <<>> THEN <<>>
  ELSE LET first == CHOOSE k \in 1..Len(items) :
                      /\ \A j \in 1..Len(items) : items[j].count <= items[k].count
                      /\ \A j \in (k + 1)..Len(items) : items[j].count < items[k].count
       IN <<items[first]>>
          \o sorted_by_count_last_first(SubSeq(items, 1, first - 1)
                                        \o SubSeq(items, first + 1, Len(items)))

RECURSIVE sorted_by_count(_)
\* sorted(items, key=count, reverse=True): a stable sort
sorted_by_count(items) ==
  IF items = <<>> THEN <<>>
  ELSE LET first == CHOOSE k \in 1..Len(items) :
                      /\ \A j \in 1..Len(items) : items[j].count <= items[k].count
                      /\ \A j \in 1..(k - 1) : items[j].count < items[k].count
       IN <<items[first]>>
          \o sorted_by_count(SubSeq(items, 1, first - 1) \o SubSeq(items, first + 1, Len(items)))

\* s[:n]
first_n(s, n) == SubSeq(s, 1, IF Len(s) < n THEN Len(s) ELSE n)

check_color_contrast(markup) ==
  LET color_props == style_color_props(attribute_matches(markup, "style"))
      class_matches == attribute_matches(markup, "class")
      names == joined([k \in 1..Len(class_matches) |-> split(class_matches[k])])
  IN [color_properties |-> first_n(color_props, 20),
      common_classes |-> first_n(sorted_by_count(count_classes(names, <<>>)), 10)]

(***************************************************************************)
(* check_form_accessibility                                                *)
(***************************************************************************)
SkippedInputTypes == {S_hidden, S_submit, S_button, S_image}

\* `a or b` for two values that are None or a text
py_or(a, b) == IF truthy(a) THEN a ELSE b

\* form.find('label', attrs={'for': input_id}) is not None
label_for(soup, form, input_id) ==
  \E k \in 1..Len(soup) :
     /\ soup[k].name = "label" /\ inside(soup, k, form)
     /\ has_attr(soup, k, "for") /\ soup[k].attrs["for"] = input_id

\* the issues one control adds to its form: none or one
input_issues(soup, form, input_tag) ==
  LET input_id == get(soup, input_tag, "id", None)
      input_type == get(soup, input_tag, "type", S_text)
      identifier == py_or(get(soup, input_tag, "name", None),
                          py_or(get(soup, input_tag, "placeholder", None), input_type))
  IN IF input_type \in SkippedInputTypes THEN <<>>
     ELSE IF truthy(input_id)
       THEN (IF label_for(soup, form, input_id) THEN <<>>
             ELSE <<Message("Input '{}' (type: {}) has no associated label.",
                            <<input_id, input_type>>)>>)
     ELSE IF has_parent(soup, input_tag, "label") THEN <<>>
     ELSE <<Message("Input '{}' has no associated label.", <<identifier>>)>>

form_data_of(soup, forms, i) ==
  LET inputs == find_all(soup, forms[i], {"input", "textarea", "select"})
  IN [form_number |-> i,
      issues |-> joined([k \in 1..Len(inputs) |-> input_issues(soup, forms[i], inputs[k])])]

check_form_accessibility(soup) ==
  LET forms == find_all(soup, 0, {"form"})
      all == [i \in 1..Len(forms) |-> form_data_of(soup, forms, i)]
      form_issues == SelectSeq(all, LAMBDA form_data : form_data.issues # <<>>)
  IN [total_forms |-> Len(forms),
      forms_with_issues |-> Len(form_issues),
      form_issues |-> form_issues]

(***************************************************************************)
(* check_landmarks_aria                                                    *)
(***************************************************************************)
\* the attribute names of the model that start with 'aria-'
AriaAttributes == {"aria-label", "aria-hidden"}

landmark_count(soup, name, role) ==
  Len(find_all(soup, 0, {name})) + Len(find_all_attr(soup, "role", role))

check_landmarks_aria(soup) ==
  LET landmarks ==
        [header_banner |-> landmark_count(soup, "header", S_banner),
         nav_navigation |-> landmark_count(soup, "nav", S_navigation),
         main |-> landmark_count(soup, "main", S_main),
         aside_complementary |-> landmark_count(soup, "aside", S_complementary),
         footer_contentinfo |-> landmark_count(soup, "footer", S_contentinfo),
         section |-> Len(find_all(soup, 0, {"section"})),
         article |-> Len(find_all(soup, 0, {"article"})),
         figure |-> Len(find_all(soup, 0, {"figure"}))]
      used == {a \in AriaAttributes : \E i \in 1..Len(soup) : IsTag(soup, i) /\ has_attr(soup, i, a)}
      aria_attrs == [a \in used |->
                       Cardinality({i \in 1..Len(soup) : IsTag(soup, i) /\ has_attr(soup, i, a)})]
  IN [landmarks |-> landmarks,
      aria_attributes |-> aria_attrs,
      issues |->
        (IF landmarks.main = 0
           THEN <<Message("No main content area defined. Use <main> element or role='main'.", <<>>)>>
           ELSE <<>>)
        \o (IF landmarks.nav_navigation = 0
              THEN <<Message("No navigation landmark found. Use <nav> element or role='navigation'.", <<>>)>>
              ELSE <<>>)]

(***************************************************************************)
(* check_keyboard_accessibility                                            *)
(***************************************************************************)
DecimalDigits == {"0", "1", "2", "3", "4", "5", "6", "7", "8", "9"}

\* characters str.isdigit() accepts: the decimal digits and digits such as
\* the superscript two, which int() refuses
DigitCharacters == DecimalDigits \cup {"^2"}

isdigit(s) == s # <<>> /\ \A i \in 1..Len(s) : s[i] \in DigitCharacters

\* int(s) raises ValueError
int_raises(s) == \E i \in 1..Len(s) : s[i] \notin DecimalDigits

\* int(s) > 0, for a text of decimal digits
int_positive(s) == \E i \in 1..Len(s) : s[i] # "0"

RECURSIVE join_space(_)
\* ' '.join(words)
join_space(words) ==
  IF words = <<>> THEN <<>>
  ELSE IF Len(words) = 1 THEN words[1]
  ELSE words[1] \o <<" ">> \o join_space(Tail(words))

\* the (id: .., class: ..) part of a keyboard issue
element_description(soup, i) ==
  <<<<soup[i].name>>, get(soup, i, "id", <<>>),
    IF has_attr(soup, i, "class") THEN join_space(soup[i].attrs["class"]) ELSE <<>>>>

NativelyFocusable == {"a", "button", "input", "select", "textarea"}

\* a variant in which a tabindex does not exempt a clickable element
keyboard_exempt_without_tabindex(soup, i) ==
  \/ has_attr(soup, i, "onkeypress") \/ has_attr(soup, i, "onkeydown")
  \/ has_attr(soup, i, "onkeyup")
  \/ soup[i].name \in NativelyFocusable

keyboard_exempt(soup, i) ==
  \/ has_attr(soup, i, "onkeypress") \/ has_attr(soup, i, "onkeydown")
  \/ has_attr(soup, i, "onkeyup")
  \/ soup[i].name \in NativelyFocusable
  \/ has_attr(soup, i, "tabindex")

problematic_tabindex(soup, i) ==
  /\ has_attr(soup, i, "tabindex")
  /\ LET tabindex_value == soup[i].attrs["tabindex"]
     IN /\ truthy(tabindex_value)
        /\ isdigit(tabindex_value)
        /\ ~int_raises(tabindex_value)
        /\ int_positive(tabindex_value)

check_keyboard_accessibility(soup) ==
  LET onclick_elements == SelectSeq(find_all_tags(soup), LAMBDA i : has_attr(soup, i, "onclick"))
      unreachable == SelectSeq(onclick_elements, LAMBDA i : ~keyboard_exempt(soup, i))
      tabindex_elements == SelectSeq(find_all_tags(soup), LAMBDA i : problematic_tabindex(soup, i))
  IN [keyboard_issues |->
        [k \in 1..Len(unreachable) |->
           Message("Element with onclick handler may not be keyboard accessible: {} (id: {}, class: {})",
                   element_description(soup, unreachable[k]))]
        \o [k \in 1..Len(tabindex_elements) |->
           Message("Element with tabindex > 0 found, which can disrupt keyboard navigation: {} (id: {}, class: {})",
                   element_description(soup, tabindex_elements[k]))],
      onclick_elements |-> Len(onclick_elements),
      problematic_tabindex |-> Len(tabindex_elements)]

(***************************************************************************)
(* check_tables                                                            *)
(***************************************************************************)
\* a variant that looks for header cells only in a table that has a caption
table_data_of_caption_first(soup, tables, i) ==
  LET table == tables[i]
      th_elements == find_all(soup, table, {"th"})
      unscoped == SelectSeq(th_elements, LAMBDA th : ~has_attr(soup, th, "scope"))
  IN [table_number |-> i,
      issues |->
        (IF ~found(soup, table, {"caption"})
           THEN <<Message("Table lacks a caption element.", <<>>)>>
           ELSE IF th_elements = <<>>
             THEN <<Message("Table lacks header cells (th elements).", <<>>)>>
           ELSE <<>>)
        \o [k \in 1..Len(unscoped) |->
              Message("Table header '{}...' lacks scope attribute.",
                      <<first_n(get_text(soup, unscoped[k]), 20)>>)]]

table_data_of(soup, tables, i) ==
  LET table == tables[i]
      th_elements == find_all(soup, table, {"th"})
      unscoped == SelectSeq(th_elements, LAMBDA th : ~has_attr(soup, th, "scope"))
  IN [table_number |-> i,
      issues |->
        (IF ~found(soup, table, {"caption"})
           THEN <<Message("Table lacks a caption element.", <<>>)>> ELSE <<>>)
        \o (IF th_elements = <<>>
              THEN <<Message("Table lacks header cells (th elements).", <<>>)>> ELSE <<>>)
        \o [k \in 1..Len(unscoped) |->
              Message("Table header '{}...' lacks scope attribute.",
                      <<first_n(get_text(soup, unscoped[k]), 20)>>)]]

check_tables(soup) ==
  LET tables == find_all(soup, 0, {"table"})
      all == [i \in 1..Len(tables) |-> table_data_of(soup, tables, i)]
      table_issues == SelectSeq(all, LAMBDA table_data : table_data.issues # <<>>)
  IN [total_tables |-> Len(tables),
      tables_with_issues |-> Len(table_issues),
      table_issues |-> table_issues]

(***************************************************************************)
(* check_language                                                          *)
(***************************************************************************)
check_language(soup) ==
  LET html_tags == find_all(soup, 0, {"html"})
  IN IF html_tags # <<>> /\ has_attr(soup, html_tags[1], "lang")
       THEN [language_specified |-> TRUE, language |-> soup[html_tags[1]].attrs["lang"]]
       ELSE [language_specified |-> FALSE, language |-> None]

(***************************************************************************)
(* check_links                                                             *)
(***************************************************************************)
non_descriptive ==
  {S_click_here, S_read_more, S_more, S_link, S_here, S_this, S_this_link, S_learn_more}

link_issue(soup, link, issue) == [url |-> get(soup, link, "href", <<"#">>), issue |-> issue]

\* link.find('img') has a non-blank alt
image_with_alt(soup, link) ==
  LET imgs == find_all(soup, link, {"img"})
  IN /\ imgs # <<>>
     /\ has_attr(soup, imgs[1], "alt")
     /\ strip(soup[imgs[1]].attrs["alt"]) # <<>>

\* the text-quality issue of one link: none or one
text_issues(soup, link) ==
  LET link_text == get_text(soup, link)
  IN IF link_text = <<>>
       THEN (IF image_with_alt(soup, link) THEN <<>>
             ELSE <<link_issue(soup, link, Message("Link has no text content", <<>>))>>)
     ELSE IF lower(link_text) \in non_descriptive
       THEN <<link_issue(soup, link, Message("Non-descriptive link text: '{}'", <<link_text>>))>>
     ELSE IF Len(link_text) < 4
       THEN <<link_issue(soup, link, Message("Very short link text: '{}'", <<link_text>>))>>
     ELSE <<>>

\* link.find('span', class_='sr-only')
sr_only_span(soup, link) ==
  \E k \in 1..Len(soup) :
     /\ soup[k].name = "span" /\ inside(soup, k, link)
     /\ has_attr(soup, k, "class")
     /\ \E c \in 1..Len(soup[k].attrs["class"]) : soup[k].attrs["class"][c] = S_sr_only

\* the new-window issue of one link with target="_blank": none or one
new_window_issues(soup, link) ==
  LET link_text == get_text(soup, link)
      has_warning == \/ contains(lower(link_text), S_new_window)
                     \/ contains(lower(link_text), S_new_tab)
                     \/ sr_only_span(soup, link)
  IN IF has_warning THEN <<>>
     ELSE <<link_issue(soup, link,
                       Message("Link opens in new window without warning: '{}'", <<link_text>>))>>

\* a variant that counts only the links with an href in total_links
check_links_href_total(soup) ==
  LET links == find_all(soup, 0, {"a"})
      new_window_links == SelectSeq(links,
                            LAMBDA i : has_attr(soup, i, "target") /\ soup[i].attrs["target"] = S_blank)
      link_issues == joined([k \in 1..Len(links) |-> text_issues(soup, links[k])])
                     \o joined([k \in 1..Len(new_window_links) |->
                                  new_window_issues(soup, new_window_links[k])])
  IN [total_links |-> Len(SelectSeq(links, LAMBDA i : has_attr(soup, i, "href"))),
      links_with_issues |-> Len(link_issues),
      link_issues |-> first_n(link_issues, 20)]

check_links(soup) ==
  LET links == find_all(soup, 0, {"a"})
      new_window_links == SelectSeq(links,
                            LAMBDA i : has_attr(soup, i, "target") /\ soup[i].attrs["target"] = S_blank)
      link_issues == joined([k \in 1..Len(links) |-> text_issues(soup, links[k])])
                     \o joined([k \in 1..Len(new_window_links) |->
                                  new_window_issues(soup, new_window_links[k])])
  IN [total_links |-> Len(links),
      links_with_issues |-> Len(link_issues),
      link_issues |-> first_n(link_issues, 20)]

(***************************************************************************)
(* Python floats (IEEE-754 binary64, round to nearest, ties to even).      *)
(* A non-negative number is a fixed-point number of six 16-bit limbs,      *)
(* least significant first: four limbs after the binary point and two      *)
(* before it.  A double is such a number with at most 53 significant bits. *)
(* Only the operations calculate_score uses are modelled: int / int,       *)
(* 1 - x, 15 * x, x < 1 and int(x).                                        *)
(***************************************************************************)
\* bits of a double's significand
SigBits == 53

LimbBits == 16

LimbBase == 65536

\* limbs after the binary point: 64 binary places, enough for the quotient of
\* two integers below 2^10 to show 54 significant bits before the sticky bit
FracLimbs == 4

Limbs == 6

RECURSIVE Carry(_, _, _)
\* the limbs from the i-th on, each brought below LimbBase, carrying upwards
Carry(x, i, c) ==
  IF i > Len(x) THEN <<>>
  ELSE <<(x[i] + c) % LimbBase>> \o Carry(x, i + 1, (x[i] + c) \div LimbBase)

Normal(x) == Carry(x, 1, 0)

\* the k-th bit of x, the lowest being bit 0
Bit(x, k) == (x[(k \div LimbBits) + 1] \div (2^(k % LimbBits))) % 2

\* x mod 2^k is not zero
LowNonzero(x, k) ==
  \/ \E i \in 1..(k \div LimbBits) : x[i] # 0
  \/ k \div LimbBits < Len(x) /\ (x[k \div LimbBits + 1] % 2^(k % LimbBits)) # 0

\* x with its k lowest bits cleared
ClearLow(x, k) ==
  [i \in 1..Len(x) |->
     IF i <= k \div LimbBits THEN 0
     ELSE IF i = k \div LimbBits + 1 THEN x[i] - (x[i] % 2^(k % LimbBits))
     ELSE x[i]]

\* the number of bits of x from its highest set bit down (0 for zero)
BitLength(x) ==
  IF \A i \in 1..Len(x) : x[i] = 0 THEN 0
  ELSE LET h == CHOOSE i \in 1..Len(x) : x[i] # 0 /\ \A j \in (i + 1)..Len(x) : x[j] = 0
           b == CHOOSE k \in 1..LimbBits : (2^(k - 1)) <= x[h] /\ x[h] < (2^k)
       IN LimbBits * (h - 1) + b

\* x rounded to SigBits significant bits; sticky: the digits of the exact
\* value beyond the ones x holds are not all zero
RoundNearestEven(x, sticky) ==
  LET drop == BitLength(x) - SigBits
  IN IF drop <= 0 THEN x
     ELSE LET tail == sticky \/ LowNonzero(x, drop - 1)
              up == Bit(x, drop - 1) = 1 /\ (tail \/ Bit(x, drop) = 1)
              kept == ClearLow(x, drop)
          IN IF up
               THEN Normal([kept EXCEPT ![drop \div LimbBits + 1] = @ + (2^(drop % LimbBits))])
               ELSE kept

RECURSIVE DivLimbs(_, _, _)
\* the first n base-LimbBase places of r / t (r < t), most significant first,
\* followed by the remainder
DivLimbs(r, t, n) ==
  IF n = 0 THEN <<r>>
  ELSE <<(r * LimbBase) \div t>> \o DivLimbs((r * LimbBase) % t, t, n - 1)

\* a / t for two ints (true division), t > 0
FloatDiv(a, t) ==
  LET places == DivLimbs(a % t, t, FracLimbs)
      exact == [i \in 1..Limbs |->
                  IF i <= FracLimbs THEN places[FracLimbs + 1 - i]
                  ELSE IF i = FracLimbs + 1 THEN a \div t
                  ELSE 0]
  IN RoundNearestEven(exact, places[FracLimbs + 1] # 0)

IntPart(x) == x[FracLimbs + 1] + LimbBase * x[FracLimbs + 2]

\* int(x): truncation
FloatToInt(x) == IntPart(x)

\* x < 1
FloatLessThanOne(x) == IntPart(x) = 0

\* 1 - x, for x < 1
OneMinus(x) ==
  RoundNearestEven(
    Normal([i \in 1..Limbs |->
              IF i = 1 THEN LimbBase - x[i]
              ELSE IF i <= FracLimbs THEN LimbBase - 1 - x[i]
              ELSE 0]),
    FALSE)

\* n * x for a small int n
FloatTimes(n, x) ==
  RoundNearestEven(Normal([i \in 1..Limbs |-> n * x[i]]), FALSE)

(***************************************************************************)
(* analyze_accessibility                                                   *)
(***************************************************************************)
analyze_accessibility(markup) ==
  LET soup == BeautifulSoup(markup)
  IN [img_alt_text |-> check_img_alt_text(soup),
      heading_structure |-> check_heading_structure(soup),
      color_contrast |-> check_color_contrast(markup),
      form_accessibility |-> check_form_accessibility(soup),
      landmarks_aria |-> check_landmarks_aria(soup),
      keyboard_accessibility |-> check_keyboard_accessibility(soup),
      tables |-> check_tables(soup),
      language |-> check_language(soup),
      links |-> check_links(soup)]

(***************************************************************************)
(* calculate_score                                                         *)
(***************************************************************************)
Min(a, b) == IF a < b THEN a ELSE b

Max(a, b) == IF a > b THEN a ELSE b

\* a line of the deductions list: f"{label}: -{points} points"
Deduction(label, points) == [label |-> label, points |-> points]

alt_text_deduction(img_alt) ==
  IF img_alt.total_images > 0
    THEN LET alt_percentage == FloatDiv(img_alt.images_with_alt, img_alt.total_images)
         IN IF FloatLessThanOne(alt_percentage)
              THEN <<Deduction("Missing alt text",
                               Min(15, FloatToInt(FloatTimes(15, OneMinus(alt_percentage)))))>>
              ELSE <<>>
    ELSE <<>>

heading_deduction(heading_structure) ==
  IF heading_structure.issues # <<>>
    THEN <<Deduction("Heading structure issues", Min(15, 5 * Len(heading_structure.issues)))>>
    ELSE <<>>

form_deduction(form_accessibility) ==
  IF form_accessibility.forms_with_issues > 0
    THEN <<Deduction("Form accessibility issues", Min(15, 5 * form_accessibility.forms_with_issues))>>
    ELSE <<>>

landmark_deduction(landmarks_aria) ==
  IF landmarks_aria.issues # <<>>
    THEN <<Deduction("Landmark/ARIA issues", Min(10, 5 * Len(landmarks_aria.issues)))>>
    ELSE <<>>

keyboard_deduction(keyboard_accessibility) ==
  IF Len(keyboard_accessibility.keyboard_issues) > 0
    THEN <<Deduction("Keyboard accessibility issues",
                     Min(15, 3 * Len(keyboard_accessibility.keyboard_issues)))>>
    ELSE <<>>

\* a variant without the cap
table_deduction_uncapped(tables) ==
  IF tables.tables_with_issues > 0
    THEN <<Deduction("Table accessibility issues", 3 * tables.tables_with_issues)>>
    ELSE <<>>

\* a variant that takes 5 points for a table with issues
table_deduction_five_points(tables) ==
  IF tables.tables_with_issues > 0
    THEN <<Deduction("Table accessibility issues", Min(10, 5 * tables.tables_with_issues))>>
    ELSE <<>>

table_deduction(tables) ==
  IF tables.tables_with_issues > 0
    THEN <<Deduction("Table accessibility issues", Min(10, 3 * tables.tables_with_issues))>>
    ELSE <<>>

language_deduction(language) ==
  IF ~language.language_specified
    THEN <<Deduction("Language not specified", 5)>>
    ELSE <<>>

\* link_issues / total_links raises ZeroDivisionError
link_deduction_raises(links) == links.links_with_issues > 0 /\ links.total_links = 0

\* a variant with floor division, link_issues // total_links
link_deduction_floor_division(links) ==
  IF links.links_with_issues > 0
    THEN <<Deduction("Link accessibility issues",
                     Min(15, 15 * Min(1, links.links_with_issues \div links.total_links)))>>
    ELSE <<>>

\* min(15, int(15 * min(1, link_issues / total_links)))
link_deduction(links) ==
  IF links.links_with_issues > 0
    THEN LET ratio == FloatDiv(links.links_with_issues, links.total_links)
         IN <<Deduction("Link accessibility issues",
                        Min(15, IF FloatLessThanOne(ratio)
                                  THEN FloatToInt(FloatTimes(15, ratio))
                                  ELSE 15 * 1))>>
    ELSE <<>>

\* a variant that checks the links before the language
deductions_of_links_before_language(r) ==
  alt_text_deduction(r.img_alt_text)
  \o heading_deduction(r.heading_structure)
  \o form_deduction(r.form_accessibility)
  \o landmark_deduction(r.landmarks_aria)
  \o keyboard_deduction(r.keyboard_accessibility)
  \o table_deduction(r.tables)
  \o link_deduction(r.links)
  \o language_deduction(r.language)

\* the deductions in the order the function applies them
deductions_of(r) ==
  alt_text_deduction(r.img_alt_text)
  \o heading_deduction(r.heading_structure)
  \o form_deduction(r.form_accessibility)
  \o landmark_deduction(r.landmarks_aria)
  \o keyboard_deduction(r.keyboard_accessibility)
  \o table_deduction(r.tables)
  \o language_deduction(r.language)
  \o link_deduction(r.links)

RECURSIVE total_points(_)
total_points(deductions) ==
  IF deductions = <<>> THEN 0 ELSE Head(deductions).points + total_points(Tail(deductions))

calculate_score(r) ==
  LET deductions == deductions_of(r)
  IN [score |-> Max(0, Min(100, 100 - total_points(deductions))),
      deductions |-> deductions]

(***************************************************************************)
(* The run: main() analyses the fetched markup and scores the results      *)
(***************************************************************************)
\* analyze_accessibility(url): no markup (nothing fetched, or an empty page),
\* no results
AnalyzeAccessibility ==
  /\ pc = "fetched"
  /\ IF html_content # <<>>
       THEN /\ results' = analyze_accessibility(html_content)
            /\ pc' = "analyzed"
       ELSE /\ results' = None
            /\ pc' = "no_results"
  /\ UNCHANGED <<html_content, score_results>>

\* score_results = calculate_score(results)
CalculateScore ==
  /\ pc = "analyzed"
  /\ IF link_deduction_raises(results.links)
       THEN /\ pc' = "raised"
            /\ score_results' = None
       ELSE /\ pc' = "scored"
            /\ score_results' = calculate_score(results)
  /\ UNCHANGED <<html_content, results>>

Next == AnalyzeAccessibility \/ CalculateScore

(***************************************************************************)
(* The nine checker calls of analyze_accessibility taken one at a time, in *)
(* any order: each reads the tree and the raw markup, and its result is    *)
(* stored under its own key of the results                                 *)
(***************************************************************************)
CheckerKeys ==
  {"img_alt_text", "heading_structure", "color_contrast", "form_accessibility",
   "landmarks_aria", "keyboard_accessibility", "tables", "language", "links"}

\* the call that the results dict holds under the key
checker_result(key, markup) ==
  LET soup == BeautifulSoup(markup)
  IN CASE key = "img_alt_text" -> check_img_alt_text(soup)
       [] key = "heading_structure" -> check_heading_structure(soup)
       [] key = "color_contrast" -> check_color_contrast(markup)
       [] key = "form_accessibility" -> check_form_accessibility(soup)
       [] key = "landmarks_aria" -> check_landmarks_aria(soup)
       [] key = "keyboard_accessibility" -> check_keyboard_accessibility(soup)
       [] key = "tables" -> check_tables(soup)
       [] key = "language" -> check_language(soup)
       [] key = "links" -> check_links(soup)

\* a variant with one slot for all the checkers: a result replaces what the
\* checkers before it stored
store_result_shared(stored, key, value) == [k \in {key} |-> value]

\* results[key] = value
store_result(stored, key, value) ==
  [k \in DOMAIN stored \cup {key} |-> IF k = key THEN value ELSE stored[k]]

RunChecker(key) ==
  /\ pc \in {"fetched", "checking"}
  /\ html_content # <<>>
  /\ LET stored == IF pc = "fetched" THEN <<>> ELSE results
     IN /\ key \notin DOMAIN stored
        /\ results' = store_result(stored, key, checker_result(key, html_content))
        /\ pc' = IF DOMAIN stored \cup {key} = CheckerKeys THEN "analyzed" ELSE "checking"
  /\ UNCHANGED <<html_content, score_results>>

NextAnyOrder == (\E key \in CheckerKeys : RunChecker(key)) \/ CalculateScore

(***************************************************************************)
(* Markup of the pages the runs start from                                 *)
(***************************************************************************)
\* the sequences over S of length at most n
SeqUpTo(S, n) == UNION {[1..k -> S] : k \in 0..n}

\* an attribute list with the attributes given a value other than None
Attrs(pairs) ==
  LET given == {k \in 1..Len(pairs) : pairs[k][2] # None}
  IN [a \in {pairs[k][1] : k \in given} |->
        pairs[CHOOSE k \in given : pairs[k][1] = a][2]]

Element(name, attrs, content) == <<StartTag(name, attrs)>> \o content \o <<EndTag(name)>>

\* a page with a language, a navigation and a main landmark; headings come
\* first and the body lies in the main landmark
Frame(headings, body) ==
  Element("html", [lang |-> <<"e", "n">>],
          headings \o Element("nav", NoAttrs, <<>>) \o Element("main", NoAttrs, body))

Heading(level) == Element(heading_tag(level), NoAttrs, <<Data(<<"T">>)>>)

\* a page with one H1 besides: nothing for any checker to report but what
\* its body holds
Page(body) == Frame(Heading(1), body)

RECURSIVE Repeat(_, _)
\* n copies of a piece of markup
Repeat(markup, n) == IF n <= 0 THEN <<>> ELSE markup \o Repeat(markup, n - 1)

\* the start tags of the markup with a name, in source order
start_tags(markup, name) ==
  SelectSeq(markup, LAMBDA t : t.type = "start" /\ t.name = name)

\* a run starts with the markup fetched
Fetched(pages) ==
  /\ pc = "fetched"
  /\ html_content \in pages
  /\ results = None
  /\ score_results = None

(***************************************************************************)
(* Pages of images                                                         *)
(***************************************************************************)
MaxImages == 3

AltValues == {None, <<>>, <<" ">>, <<"a">>, <<" ", "a">>}

SrcValues == {None, <<"p">>, <<"q">>}

ImageTags == {StartTag("img", Attrs(<<<<"alt", alt>>, <<"src", src>>>>)) :
                alt \in AltValues, src \in SrcValues}

ImagePages == {Page(joined(imgs)) : imgs \in SeqUpTo({<<t>> : t \in ImageTags}, MaxImages)}

\* the pages of images, and the empty page
Init == Fetched(ImagePages \cup {<<>>})

Spec == Init /\ [][Next]_vars

(***************************************************************************)
(* Pages of headings                                                       *)
(***************************************************************************)
MaxHeadings == 4

HeadingPages ==
  {Frame(joined([k \in 1..Len(levels) |-> Heading(levels[k])]), <<>>) :
     levels \in SeqUpTo(1..6, MaxHeadings)}

InitHeadings == Fetched(HeadingPages)

SpecHeadings == InitHeadings /\ [][Next]_vars

(***************************************************************************)
(* Pages of forms                                                          *)
(***************************************************************************)
MaxForms == 2

MaxControls == 2

FormItems ==
  {Element("label", Attrs(<<<<"for", f>>>>), <<>>) : f \in {<<"x">>, <<"y">>}}
  \cup {<<StartTag("input", Attrs(<<<<"id", id>>, <<"type", type>>>>))>> :
          id \in {None, <<"x">>}, type \in {None, S_hidden}}
  \cup {<<StartTag("input", [name |-> <<"n">>])>>}
  \cup {Element("label", NoAttrs, <<StartTag("input", Attrs(<<<<"id", id>>>>))>>) :
          id \in {None, <<"x">>}}

FormElements ==
  {Element("form", NoAttrs, joined(items)) : items \in SeqUpTo(FormItems, MaxControls)}

FormPages == {Page(joined(forms)) : forms \in SeqUpTo(FormElements, MaxForms)}

InitForms == Fetched(FormPages)

SpecForms == InitForms /\ [][Next]_vars

(***************************************************************************)
(* Pages of tables                                                         *)
(***************************************************************************)
MaxTables == 2

HeaderCell(scope) == Element("th", Attrs(<<<<"scope", scope>>>>), <<Data(<<"H">>)>>)

HeaderRows ==
  {<<>>, HeaderCell(<<"c", "o", "l">>), HeaderCell(None),
   HeaderCell(<<"c", "o", "l">>) \o HeaderCell(None), HeaderCell(None) \o HeaderCell(None)}

Captions == {<<>>, Element("caption", NoAttrs, <<Data(<<"T">>)>>)}

\* a table inside a cell of another table
NestedTables ==
  {<<>>, Element("td", NoAttrs,
                 Element("table", NoAttrs,
                         Element("caption", NoAttrs, <<>>) \o HeaderCell(None)))}

TableElements ==
  {Element("table", NoAttrs, caption \o row \o nested) :
     caption \in Captions, row \in HeaderRows, nested \in NestedTables}

TablePages == {Page(joined(tables)) : tables \in SeqUpTo(TableElements, MaxTables)}

InitTables == Fetched(TablePages)

SpecTables == InitTables /\ [][Next]_vars

(***************************************************************************)
(* Pages of images and pages of links, by their counts                     *)
(***************************************************************************)
MaxScoredImages == 10

\* the first `missing` of `total` images have no alt text
AltScorePages ==
  {Page(Repeat(<<StartTag("img", [src |-> <<"p">>])>>, c[2])
        \o Repeat(<<StartTag("img", [src |-> <<"p">>, alt |-> <<"a">>])>>, c[1] - c[2])) :
     c \in {c \in (0..MaxScoredImages) \X (0..MaxScoredImages) : c[2] <= c[1]}}

InitAltScore == Fetched(AltScorePages)

SpecAltScore == InitAltScore /\ [][Next]_vars

MaxScoredLinks == 15

ClickHere == <<"C", "l", "i", "c", "k", " ", "h", "e", "r", "e">>

\* a link with two issues, a link with one and a link with none
NewWindowClickHereLink == Element("a", [target |-> S_blank], <<Data(ClickHere)>>)

ClickHereLink == Element("a", NoAttrs, <<Data(ClickHere)>>)

HomeLink == Element("a", [href |-> <<"u">>], <<Data(<<"H", "o", "m", "e">>)>>)

LinkScorePages ==
  {Page(Repeat(NewWindowClickHereLink, c[3]) \o Repeat(ClickHereLink, c[2])
        \o Repeat(HomeLink, c[1] - c[2] - c[3])) :
     c \in {c \in (0..MaxScoredLinks) \X (0..MaxScoredLinks) \X (0..MaxScoredLinks) :
              c[2] + c[3] <= c[1]}}

InitLinkScore == Fetched(LinkScorePages)

SpecLinkScore == InitLinkScore /\ [][Next]_vars

(***************************************************************************)
(* Pages of images and links together, by their counts                     *)
(***************************************************************************)
MaxMixedImages == 3

MaxMixedLinks == 3

MixedPages ==
  {Page(Repeat(<<StartTag("img", [src |-> <<"p">>])>>, i[2])
        \o Repeat(<<StartTag("img", [src |-> <<"p">>, alt |-> <<"a">>])>>, i[1] - i[2])
        \o Repeat(NewWindowClickHereLink, c[3]) \o Repeat(ClickHereLink, c[2])
        \o Repeat(HomeLink, c[1] - c[2] - c[3])) :
     i \in {i \in (0..MaxMixedImages) \X (0..MaxMixedImages) : i[2] <= i[1]},
     c \in {c \in (0..MaxMixedLinks) \X (0..MaxMixedLinks) \X (0..MaxMixedLinks) :
              c[2] + c[3] <= c[1]}}

InitMixed == Fetched(MixedPages)

SpecMixed == InitMixed /\ [][Next]_vars

(***************************************************************************)
(* Pages of links of every kind                                            *)
(***************************************************************************)
MaxLinks == 2

SrOnlySpan(class) == Element("span", [class |-> class], <<Data(<<"x">>)>>)

\* what a link holds: no text, blank text, a denylisted phrase, a short
\* text, a text with a warning, images with and without alt text, spans
LinkContents ==
  {<<>>, <<Data(<<" ">>)>>,
   <<Data(<<"h", "e", "r", "e">>)>>, <<Data(<<" ", "H", "e", "r", "e", " ">>)>>,
   <<Data(<<"a", "b", "c">>)>>, <<Data(<<"H", "o", "m", "e">>)>>,
   <<Data(<<"i", "n", " ", "N", "e", "w", " ", "t", "a", "b">>)>>,
   <<StartTag("img", NoAttrs)>>, <<StartTag("img", [alt |-> <<"a">>])>>,
   <<StartTag("img", [alt |-> <<" ">>])>>,
   <<StartTag("img", NoAttrs), StartTag("img", [alt |-> <<"a">>])>>,
   SrOnlySpan(S_sr_only), SrOnlySpan(<<"b", " ">> \o S_sr_only), SrOnlySpan(<<"b">>),
   <<Data(<<"m", "o", "r", "e">>)>> \o Element("span", [class |-> S_sr_only], <<>>)}

LinkElements ==
  {Element("a", Attrs(<<<<"target", target>>>>), content) :
     target \in {None, S_blank}, content \in LinkContents}
  \cup {Element("a", [target |-> <<"_", "s", "e", "l", "f">>, href |-> <<"u">>],
                <<Data(<<"h", "e", "r", "e">>)>>),
        Element("a", [target |-> S_blank, href |-> <<"u">>], <<>>)}

LinkPages == {Page(joined(links)) : links \in SeqUpTo(LinkElements, MaxLinks)}

InitLinks == Fetched(LinkPages)

SpecLinks == InitLinks /\ [][Next]_vars

(***************************************************************************)
(* Pages with something for every checker, for the checkers in any order   *)
(***************************************************************************)
\* an image without alt text, a skipped heading level, an unlabelled control,
\* a table without caption, a clickable div, a styled link that says "here"
BusyBody ==
  <<StartTag("img", [src |-> <<"p">>])>> \o Heading(3)
  \o Element("form", NoAttrs, <<StartTag("input", [name |-> <<"n">>])>>)
  \o Element("table", NoAttrs, HeaderCell(None))
  \o Element("div", [onclick |-> <<"f">>, class |-> <<"b">>], <<>>)
  \o Element("a", [style |-> S_color \o <<"r", "e", "d">>, class |-> <<"b">>],
             <<Data(<<"h", "e", "r", "e">>)>>)

AnyOrderPages == {Page(<<>>), Page(BusyBody), BusyBody, Page(NewWindowClickHereLink)}

InitAnyOrder == Fetched(AnyOrderPages)

SpecAnyOrder == InitAnyOrder /\ [][NextAnyOrder]_vars

(***************************************************************************)
(* Pages of clickable elements and elements with a tabindex                *)
(***************************************************************************)
MaxKeyboardElements == 2

\* zero, positive, with a leading zero, negative, empty, not a number, a
\* fraction, and the superscript two, which isdigit() accepts and int() refuses
TabindexValues ==
  {None, <<"0">>, <<"5">>, <<"0", "5">>, <<"-", "1">>, <<>>, <<"x">>, <<"1", ".", "5">>, <<"^2">>}

KeyboardElements ==
  {Element("div", Attrs(<<<<"onclick", onclick>>, <<"tabindex", tabindex>>>>), <<>>) :
     onclick \in {None, <<"f">>}, tabindex \in TabindexValues}
  \cup {Element("div", [h \in {"onclick", handler} |-> <<"f">>], <<>>) :
          handler \in {"onkeypress", "onkeydown", "onkeyup"}}
  \cup {Element(name, [onclick |-> <<"f">>], <<>>) : name \in {"a", "button", "select", "textarea"}}
  \cup {<<StartTag("input", [onclick |-> <<"f">>])>>,
        Element("button", [tabindex |-> <<"5">>], <<>>),
        Element("span", [onclick |-> <<>>, id |-> <<"i">>, class |-> <<"b", " ", "c">>], <<>>)}

KeyboardPages ==
  {Page(joined(elements)) : elements \in SeqUpTo(KeyboardElements, MaxKeyboardElements)}

InitKeyboard == Fetched(KeyboardPages)

SpecKeyboard == InitKeyboard /\ [][Next]_vars

(***************************************************************************)
(* Pages of styled elements and elements with classes, by their counts     *)
(***************************************************************************)
MaxStyles == 11

MaxClasses == 12

\* the j-th styled element: a text colour, a text and a background colour,
\* or a background colour, of the value j
StyledElement(j, variant) ==
  Element("p", [style |-> CASE variant = "text" -> S_color \o str(j)
                            [] variant = "both" -> S_color \o str(j) \o <<";">> \o S_bgcolor \o str(j)
                            [] variant = "background" -> S_bgcolor \o <<" ">> \o str(j)],
          <<>>)

\* the classes 1..n are first seen in that order; class i occurs
\* occurrences[i] times: the r-th element names the classes that occur at
\* least r times
RECURSIVE ClassRounds(_, _, _)
ClassRounds(n, occurrences, r) ==
  LET named == SelectSeq([i \in 1..n |-> i], LAMBDA i : occurrences[i] >= r)
  IN IF named = <<>> THEN <<>>
     ELSE Element("div", [class |-> join_space([k \in 1..Len(named) |-> str(named[k])])], <<>>)
          \o ClassRounds(n, occurrences, r + 1)

\* every class once; class i i times; one and two times in turn
ClassOccurrences(n) ==
  {[i \in 1..n |-> 1], [i \in 1..n |-> i], [i \in 1..n |-> 1 + (i % 2)]}

ColorPages ==
  UNION {{Page(joined([j \in 1..styles |-> StyledElement(j, variant)])
               \o ClassRounds(n, occurrences, 1)) :
            styles \in 0..MaxStyles, variant \in {"text", "both", "background"},
            occurrences \in ClassOccurrences(n)} :
         n \in 0..MaxClasses}

InitColors == Fetched(ColorPages)

SpecColors == InitColors /\ [][Next]_vars

(***************************************************************************)
(* Pages of many images and links of which at most one has an issue        *)
(***************************************************************************)
MaxSparseImages == 16

MaxSparseLinks == 16

\* `missing` of the images have no alt text, `issues` of the links read
\* "Click here"
SparsePages ==
  {Page(Repeat(<<StartTag("img", [src |-> <<"p">>])>>, i[2])
        \o Repeat(<<StartTag("img", [src |-> <<"p">>, alt |-> <<"a">>])>>, i[1] - i[2])
        \o Repeat(ClickHereLink, c[2]) \o Repeat(HomeLink, c[1] - c[2])) :
     i \in {i \in (0..MaxSparseImages) \X (0..1) : i[2] <= i[1]},
     c \in {c \in (0..MaxSparseLinks) \X (0..1) : c[2] <= c[1]}}

InitSparse == Fetched(SparsePages)

SpecSparse == InitSparse /\ [][Next]_vars

(***************************************************************************)
(* Synthetic checker results, for calculate_score alone                    *)
(***************************************************************************)
MaxSyntheticImages == 1

MaxSyntheticHeadingIssues == 3

MaxSyntheticFormsWithIssues == 3

MaxSyntheticLandmarkIssues == 2

MaxSyntheticKeyboardIssues == 5

MaxSyntheticTablesWithIssues == 4

MaxSyntheticLinks == 1

Issues(n) == [k \in 1..n |-> Message("issue", <<>>)]

\* results with the given counts, in the fields calculate_score reads
SyntheticResults(img, heading_issues, forms_with_issues, landmark_issues, keyboard_issues, tables_with_issues, language_specified, lnk) ==
  [img_alt_text |-> [total_images |-> img[1], images_with_alt |-> img[2],
                     missing_alt |-> [k \in 1..(img[1] - img[2]) |-> <<"No source">>]],
   heading_structure |-> [issues |-> Issues(heading_issues)],
   form_accessibility |-> [forms_with_issues |-> forms_with_issues],
   landmarks_aria |-> [issues |-> Issues(landmark_issues)],
   keyboard_accessibility |-> [keyboard_issues |-> Issues(keyboard_issues)],
   tables |-> [tables_with_issues |-> tables_with_issues],
   language |-> [language_specified |-> language_specified],
   links |-> [total_links |-> lnk[1], links_with_issues |-> lnk[2]]]

InitScore ==
  /\ pc = "analyzed"
  /\ html_content = None
  /\ score_results = None
  /\ \E img \in {c \in (0..MaxSyntheticImages) \X (0..MaxSyntheticImages) : c[2] <= c[1]},
        heading_issues \in 0..MaxSyntheticHeadingIssues,
        forms_with_issues \in 0..MaxSyntheticFormsWithIssues,
        landmark_issues \in 0..MaxSyntheticLandmarkIssues,
        keyboard_issues \in 0..MaxSyntheticKeyboardIssues,
        tables_with_issues \in 0..MaxSyntheticTablesWithIssues,
        language_specified \in BOOLEAN,
        lnk \in (0..MaxSyntheticLinks) \X (0..(MaxSyntheticLinks + 1)) :
       results = SyntheticResults(img, heading_issues, forms_with_issues, landmark_issues,
                                  keyboard_issues, tables_with_issues, language_specified, lnk)

SpecScore == InitScore /\ [][CalculateScore]_vars

(***************************************************************************)
(* Results by their counts of issues, no image and no link, and pages with *)
(* and without a language                                                  *)
(***************************************************************************)
MaxCountedHeadingIssues == 4

MaxCountedFormsWithIssues == 4

MaxCountedLandmarkIssues == 3

MaxCountedKeyboardIssues == 6

MaxCountedTablesWithIssues == 4

\* an html element with a lang, with an empty lang, without one; a lang on
\* another element only; no html element
LanguagePages ==
  {Element("html", Attrs(<<<<"lang", lang>>>>), Heading(1)) : lang \in {None, <<>>, <<"e", "n">>}}
  \cup {Element("html", NoAttrs, Element("div", [lang |-> <<"e", "n">>], <<>>)),
        Element("div", [lang |-> <<"e", "n">>], <<>>)}

InitCounts ==
  \/ Fetched(LanguagePages)
  \/ /\ pc = "analyzed"
     /\ html_content = None
     /\ score_results = None
     /\ \E heading_issues \in 0..MaxCountedHeadingIssues,
           forms_with_issues \in 0..MaxCountedFormsWithIssues,
           landmark_issues \in 0..MaxCountedLandmarkIssues,
           keyboard_issues \in 0..MaxCountedKeyboardIssues,
           tables_with_issues \in 0..MaxCountedTablesWithIssues,
           language_specified \in BOOLEAN :
          results = SyntheticResults(<<0, 0>>, heading_issues, forms_with_issues, landmark_issues,
                                     keyboard_issues, tables_with_issues, language_specified,
                                     <<0, 0>>)

SpecCounts == InitCounts /\ [][Next]_vars

(***************************************************************************)
(* Properties                                                              *)
(***************************************************************************)
Analyzed == pc \in {"analyzed", "scored"}

\* the points of the line item with the label, 0 when there is none
Applied(label) ==
  LET lines == SelectSeq(score_results.deductions, LAMBDA d : d.label = label)
  IN IF lines = <<>> THEN 0 ELSE lines[1].points

\* C1: for every result with non-negative counts, produced by the checkers
\* or synthetic, calculate_score returns a score that is an integer with
\* 0 <= score <= 100.
C1_ScoreInRange ==
  pc # "analyzed" => pc = "scored" /\ score_results.score \in 0..100

\* C2: images_with_alt + len(missing_alt) = total_images, and missing_alt
\* lists, in document order, the images whose alt is absent, empty or
\* whitespace-only.
C2_ImageCounts ==
  Analyzed =>
    LET imgs == start_tags(html_content, "img")
        blank == SelectSeq(imgs,
                   LAMBDA t : \/ "alt" \notin DOMAIN t.attrs
                              \/ \A i \in 1..Len(t.attrs.alt) : t.attrs.alt[i] \in Whitespace)
        r == results.img_alt_text
    IN /\ r.total_images = Len(imgs)
       /\ r.images_with_alt + Len(r.missing_alt) = r.total_images
       /\ Len(r.missing_alt) = Len(blank)
       /\ \A k \in 1..Len(blank) :
            r.missing_alt[k] = IF "src" \in DOMAIN blank[k].attrs
                                 THEN blank[k].attrs.src ELSE <<"No source">>

\* two images without alt text, the first with a whitespace-only alt, listed
\* in their order
C2_Witness ==
  /\ pc = "analyzed"
  /\ html_content = Page(<<StartTag("img", [alt |-> <<" ">>, src |-> <<"q">>]),
                           StartTag("img", [src |-> <<"p">>])>>)
  /\ results.img_alt_text.missing_alt = <<<<"q">>, <<"p">>>>
  /\ results.img_alt_text.images_with_alt = 0

\* C4: with total_images > 0 the alt-text deduction is 15 * missing /
\* total_images rounded down, at most 15; 10 images with 5 missing alt text
\* and nothing else wrong: a deduction of 7, no other, and a score of 93.
C4_AltDeductionIsFloor ==
  pc = "scored" =>
    LET total == results.img_alt_text.total_images
        missing == Len(results.img_alt_text.missing_alt)
    IN /\ total > 0 =>
            /\ Applied("Missing alt text") = (15 * missing) \div total
            /\ Applied("Missing alt text") <= 15
       /\ total = 10 /\ missing = 5 =>
            /\ score_results.deductions = <<Deduction("Missing alt text", 7)>>
            /\ score_results.score = 93

\* C5: with total_links > 0 the link deduction is 15 * min(1,
\* links_with_issues / total_links) rounded down, at most 15, also with more
\* issues than links; a page whose only link reads "Click here" has exactly
\* one link issue, a "Non-descriptive" one, and a link deduction of 15.
C5_LinkDeduction ==
  pc = "scored" =>
    LET total == results.links.total_links
        issues == results.links.links_with_issues
    IN /\ total > 0 =>
            /\ Applied("Link accessibility issues") = (15 * Min(issues, total)) \div total
            /\ Applied("Link accessibility issues") <= 15
       /\ html_content = Page(ClickHereLink) =>
            /\ results.links.link_issues =
                 <<[url |-> <<"#">>,
                    issue |-> Message("Non-descriptive link text: '{}'", <<ClickHere>>)]>>
            /\ Applied("Link accessibility issues") = 15

\* the page whose only link reads "Click here", scored
C5_Witness ==
  /\ pc = "scored"
  /\ html_content = Page(ClickHereLink)
  /\ results.links.total_links = 1
  /\ Len(results.links.link_issues) = 1
  /\ Applied("Link accessibility issues") = 15

\* the levels of the headings of the markup, in document order
DocumentLevels ==
  LET tags == SelectSeq(html_content,
                LAMBDA t : t.type = "start" /\ \E l \in 1..6 : t.name = heading_tag(l))
  IN [k \in 1..Len(tags) |-> CHOOSE l \in 1..6 : tags[k].name = heading_tag(l)]

HeadingIssues(msg) ==
  SelectSeq(results.heading_structure.issues, LAMBDA issue : issue.msg = msg)

\* C6: the headings [H1, H3] give exactly one skip issue (H1 to H3), [H1, H2,
\* H3] give none, two H1 give a "Multiple H1" issue and no "No H1" issue; in
\* general one of the two H1 issues is reported when the number of H1 is not
\* 1 and none when it is 1.
C6_HeadingIssues ==
  Analyzed =>
    LET levels == DocumentLevels
        h1 == Cardinality({k \in 1..Len(levels) : levels[k] = 1})
    IN /\ levels = <<1, 3>> =>
            HeadingIssues(SkipMessage) = <<Message(SkipMessage, <<<<"1">>, <<"3">>>>)>>
       /\ levels = <<1, 2, 3>> => HeadingIssues(SkipMessage) = <<>>
       /\ levels = <<1, 1>> =>
            Len(HeadingIssues(MultipleH1Message)) = 1 /\ HeadingIssues(NoH1Message) = <<>>
       /\ h1 = 1 => HeadingIssues(MultipleH1Message) = <<>> /\ HeadingIssues(NoH1Message) = <<>>
       /\ h1 = 0 => HeadingIssues(MultipleH1Message) = <<>> /\ Len(HeadingIssues(NoH1Message)) = 1
       /\ h1 > 1 => Len(HeadingIssues(MultipleH1Message)) = 1 /\ HeadingIssues(NoH1Message) = <<>>

\* the headings [H1, H3], with their one skip issue
C6_Witness ==
  /\ pc = "analyzed"
  /\ DocumentLevels = <<1, 3>>
  /\ Len(HeadingIssues(SkipMessage)) = 1

\* C7: the skips are detected over the headings in document order: a heading
\* has a skip issue exactly when its level exceeds the highest level of the
\* headings before it by more than one (and there is one before it); the
\* headings list is in document order.  [H1, H3, H2]: one skip, H1 to H3.
C7_SkipsInDocumentOrder ==
  Analyzed =>
    LET levels == DocumentLevels
        highest(k) == IF k = 1 THEN 0
                      ELSE CHOOSE m \in {levels[j] : j \in 1..(k - 1)} :
                             \A j \in 1..(k - 1) : levels[j] <= m
        skipping == SelectSeq([k \in 1..Len(levels) |-> k],
                              LAMBDA k : k > 1 /\ levels[k] > highest(k) + 1)
        listed == results.heading_structure.headings
    IN /\ HeadingIssues(SkipMessage) =
            [n \in 1..Len(skipping) |->
               Message(SkipMessage, <<str(highest(skipping[n])), str(levels[skipping[n]])>>)]
       /\ [k \in 1..Len(listed) |-> listed[k].level] = levels

\* the labelling of the forms of the page, as the rule states it: for every
\* form, the identifiers of its controls that are not of a skipped type and
\* have neither a label with for = id in the form nor a label around them
UnlabelledControls(soup, form) ==
  LET controls == SelectSeq([k \in 1..Len(soup) |-> k],
                    LAMBDA k : /\ soup[k].name \in {"input", "textarea", "select"}
                               /\ inside(soup, k, form)
                               /\ get(soup, k, "type", S_text) \notin SkippedInputTypes)
      matched(k) == /\ has_attr(soup, k, "id")
                    /\ \E l \in 1..Len(soup) :
                         /\ soup[l].name = "label" /\ inside(soup, l, form)
                         /\ has_attr(soup, l, "for")
                         /\ soup[l].attrs["for"] = soup[k].attrs["id"]
      unlabelled == SelectSeq(controls, LAMBDA k : ~matched(k) /\ ~has_parent(soup, k, "label"))
  IN [n \in 1..Len(unlabelled) |->
        py_or(get(soup, unlabelled[n], "id", None),
              py_or(get(soup, unlabelled[n], "name", None),
                    py_or(get(soup, unlabelled[n], "placeholder", None),
                          get(soup, unlabelled[n], "type", S_text))))]

\* C8: a control of a form, of a type other than hidden, submit, button and
\* image, has no issue if and only if a label of the form has for = its id or
\* it lies inside a label; otherwise it has exactly one issue, naming it.
C8_FormLabels ==
  Analyzed =>
    LET soup == BeautifulSoup(html_content)
        forms == SelectSeq([k \in 1..Len(soup) |-> k], LAMBDA k : soup[k].name = "form")
        reported(i) ==
          LET data == SelectSeq(results.form_accessibility.form_issues,
                                LAMBDA form_data : form_data.form_number = i)
          IN IF data = <<>> THEN <<>>
             ELSE [n \in 1..Len(data[1].issues) |-> data[1].issues[n].args[1]]
    IN \A i \in 1..Len(forms) : reported(i) = UnlabelledControls(soup, forms[i])

\* the issues the rule gives a table: one without a caption in it, one
\* without a th in it, and one for each th in it without a scope
TableIssueCount(soup, table) ==
  LET within(name) == {k \in 1..Len(soup) : soup[k].name = name /\ inside(soup, k, table)}
  IN (IF within("caption") = {} THEN 1 ELSE 0)
     + (IF within("th") = {} THEN 1 ELSE 0)
     + Cardinality({k \in within("th") : "scope" \notin DOMAIN soup[k].attrs})

\* C9: every table is evaluated for itself: its issues are one without a
\* caption, one without a th and one for each of its th without a scope, so
\* two for a table with no caption and no th; tables_with_issues counts the
\* tables with at least one issue.
C9_TableIssues ==
  Analyzed =>
    LET soup == BeautifulSoup(html_content)
        tables == SelectSeq([k \in 1..Len(soup) |-> k], LAMBDA k : soup[k].name = "table")
        reported(i) ==
          LET data == SelectSeq(results.tables.table_issues,
                                LAMBDA table_data : table_data.table_number = i)
          IN IF data = <<>> THEN 0 ELSE Len(data[1].issues)
    IN /\ \A i \in 1..Len(tables) :
            /\ reported(i) = TableIssueCount(soup, tables[i])
            /\ (~\E k \in 1..Len(soup) :
                   soup[k].name \in {"caption", "th"} /\ inside(soup, k, tables[i]))
                 => reported(i) = 2
       /\ results.tables.tables_with_issues =
            Cardinality({i \in 1..Len(tables) : TableIssueCount(soup, tables[i]) > 0})
       /\ results.tables.total_tables = Len(tables)

\* a table with no caption and no th after a table with both: two issues,
\* for the second table alone
C9_Witness ==
  /\ pc = "analyzed"
  /\ html_content =
       Page(Element("table", NoAttrs,
                    Element("caption", NoAttrs, <<Data(<<"T">>)>>) \o HeaderCell(<<"c", "o", "l">>))
            \o Element("table", NoAttrs, <<>>))
  /\ results.tables.tables_with_issues = 1
  /\ results.tables.table_issues[1].table_number = 2
  /\ Len(results.tables.table_issues[1].issues) = 2

\* the sources of deductions, in the order of the table of deductions
DeductionOrder ==
  <<"Missing alt text", "Heading structure issues", "Form accessibility issues",
    "Landmark/ARIA issues", "Keyboard accessibility issues",
    "Table accessibility issues", "Language not specified",
    "Link accessibility issues">>

\* the results trigger the deduction of the i-th source
Triggered(i) ==
  CASE i = 1 -> /\ results.img_alt_text.total_images > 0
                /\ results.img_alt_text.images_with_alt < results.img_alt_text.total_images
    [] i = 2 -> Len(results.heading_structure.issues) > 0
    [] i = 3 -> results.form_accessibility.forms_with_issues > 0
    [] i = 4 -> Len(results.landmarks_aria.issues) > 0
    [] i = 5 -> Len(results.keyboard_accessibility.keyboard_issues) > 0
    [] i = 6 -> results.tables.tables_with_issues > 0
    [] i = 7 -> ~results.language.language_specified
    [] i = 8 -> results.links.links_with_issues > 0

\* C10: the deductions returned are a subsequence of the order alt text,
\* headings, forms, landmarks/ARIA, keyboard, tables, language, links: a
\* source has a line item exactly when its deduction is triggered, at most
\* one, and never out of that order.
C10_DeductionOrder ==
  pc = "scored" =>
    LET d == score_results.deductions
        place(k) == CHOOSE i \in 1..Len(DeductionOrder) : DeductionOrder[i] = d[k].label
    IN /\ \A k \in 1..Len(d) : \E i \in 1..Len(DeductionOrder) : DeductionOrder[i] = d[k].label
       /\ \A j, k \in 1..Len(d) : j < k => place(j) < place(k)
       /\ \A i \in 1..Len(DeductionOrder) :
            Triggered(i) <=> \E k \in 1..Len(d) : d[k].label = DeductionOrder[i]

\* every source triggered: eight line items
C10_Witness ==
  /\ pc = "scored"
  /\ \A i \in 1..Len(DeductionOrder) : Triggered(i)
  /\ Len(score_results.deductions) = 8

\* C11: given empty markup text, the analysis does not fail and does not
\* return an absent result: it returns a result in which every count is zero
\* and only the findings of absent structure (no H1, no main landmark, no
\* navigation landmark, language not specified) are reported.
C11_EmptyMarkupAnalyzed ==
  (html_content = <<>> /\ pc # "fetched") =>
    /\ Analyzed
    /\ results.img_alt_text.total_images = 0
    /\ results.heading_structure.headings = <<>>
    /\ results.heading_structure.issues = <<Message(NoH1Message, <<>>)>>
    /\ results.form_accessibility.total_forms = 0
    /\ Len(results.landmarks_aria.issues) = 2
    /\ results.keyboard_accessibility.keyboard_issues = <<>>
    /\ results.tables.total_tables = 0
    /\ ~results.language.language_specified
    /\ results.links.total_links = 0

\* the deductions list has a line item with the label
Listed(label) == \E k \in 1..Len(score_results.deductions) : score_results.deductions[k].label = label

\* C12: calculate_score never divides by zero on a result of the checkers:
\* links_with_issues > 0 implies total_links > 0, the alt-text deduction is
\* computed only when total_images > 0 and the link deduction only when
\* total_links > 0, and with a denominator of zero that deduction has no line
\* item.
C12_NoDivisionByZero ==
  /\ pc # "raised"
  /\ Analyzed =>
       /\ results.img_alt_text.total_images = Len(start_tags(html_content, "img"))
       /\ results.links.total_links = Len(start_tags(html_content, "a"))
       /\ results.links.links_with_issues > 0 => results.links.total_links > 0
  /\ pc = "scored" =>
       /\ Listed("Missing alt text") => results.img_alt_text.total_images > 0
       /\ Listed("Link accessibility issues") => results.links.total_links > 0
       /\ results.img_alt_text.total_images = 0 => ~Listed("Missing alt text")
       /\ results.links.total_links = 0 => ~Listed("Link accessibility issues")

\* a page with no image and no link, scored without either deduction
C12_Witness ==
  /\ pc = "scored"
  /\ html_content = Page(<<>>)
  /\ results.img_alt_text.total_images = 0
  /\ results.links.total_links = 0
  /\ score_results.deductions = <<>>
  /\ score_results.score = 100

\* the links of the tree, in document order
LinksOf(soup) == SelectSeq([k \in 1..Len(soup) |-> k], LAMBDA k : soup[k].name = "a")

\* the text-quality issue the rule gives a link, "" for none: no text (unless
\* the link contains an image with a non-blank alt), then a denylisted
\* phrase, then a text of fewer than 4 characters
TextQualityIssue(soup, link) ==
  LET text == get_text(soup, link)
      image_alt == \E k \in 1..Len(soup) :
                      /\ soup[k].name = "img" /\ inside(soup, k, link)
                      /\ "alt" \in DOMAIN soup[k].attrs
                      /\ \E c \in 1..Len(soup[k].attrs.alt) : soup[k].attrs.alt[c] \notin Whitespace
  IN IF text = <<>> THEN (IF image_alt THEN "" ELSE "Link has no text content")
     ELSE IF lower(text) \in non_descriptive THEN "Non-descriptive link text: '{}'"
     ELSE IF Len(text) < 4 THEN "Very short link text: '{}'"
     ELSE ""

\* the rule gives the link a new-window issue
NewWindowIssue(soup, link) ==
  /\ "target" \in DOMAIN soup[link].attrs
  /\ soup[link].attrs.target = S_blank
  /\ ~contains(lower(get_text(soup, link)), S_new_window)
  /\ ~contains(lower(get_text(soup, link)), S_new_tab)
  /\ ~sr_only_span(soup, link)

NewWindowMessage == "Link opens in new window without warning: '{}'"

\* C13: every link has at most one text-quality issue, chosen in the order
\* no text (unless the link contains an image with a non-blank alt), text
\* equal to a denylisted phrase (trimmed, whatever the case), text shorter
\* than 4 characters; and, independently, one new-window issue exactly when
\* it has target="_blank" and neither a text with "new window" or "new tab"
\* nor a screen-reader-only span.  No link has more than two issues.
C13_LinkIssues ==
  Analyzed =>
    LET soup == BeautifulSoup(html_content)
        links == LinksOf(soup)
        reported(msg) == SelectSeq(results.links.link_issues, LAMBDA i : i.issue.msg = msg)
        expected(msg) ==
          SelectSeq(links, LAMBDA l : IF msg = NewWindowMessage THEN NewWindowIssue(soup, l)
                                      ELSE TextQualityIssue(soup, l) = msg)
    IN /\ \A msg \in {"Link has no text content", "Non-descriptive link text: '{}'",
                      "Very short link text: '{}'", NewWindowMessage} :
            Len(reported(msg)) = Len(expected(msg))
       /\ \A k \in 1..Len(results.links.link_issues) :
            results.links.link_issues[k].issue.msg \in
              {"Link has no text content", "Non-descriptive link text: '{}'",
               "Very short link text: '{}'", NewWindowMessage}
       /\ results.links.links_with_issues <= 2 * Len(links)

\* the issue records of the links in document order, link by link; within a
\* link the text-quality issue first, or the new-window issue first
IssuesByLink(soup, new_window_first) ==
  LET links == LinksOf(soup)
      new_window(l) == IF has_attr(soup, l, "target") /\ soup[l].attrs["target"] = S_blank
                         THEN new_window_issues(soup, l) ELSE <<>>
  IN joined([k \in 1..Len(links) |->
               IF new_window_first THEN new_window(links[k]) \o text_issues(soup, links[k])
               ELSE text_issues(soup, links[k]) \o new_window(links[k])])

\* C14: link_issues has at most 20 entries, the first 20 link issues in
\* document order of the links they belong to: an issue of an earlier link
\* never comes after an issue of a later link, whatever the kinds of the
\* issues.
C14_FirstTwentyInDocumentOrder ==
  Analyzed =>
    LET soup == BeautifulSoup(html_content)
    IN /\ Len(results.links.link_issues) <= 20
       /\ \/ results.links.link_issues = first_n(IssuesByLink(soup, FALSE), 20)
          \/ results.links.link_issues = first_n(IssuesByLink(soup, TRUE), 20)

\* C20: links_with_issues is the number of links that have at least one
\* issue, so links_with_issues <= total_links, and link_issues has
\* min(20, number of issue records found) entries.
C20_LinksWithIssues ==
  Analyzed =>
    LET soup == BeautifulSoup(html_content)
        links == LinksOf(soup)
        with_issues == {l \in 1..Len(soup) :
                          /\ soup[l].name = "a"
                          /\ TextQualityIssue(soup, l) # "" \/ NewWindowIssue(soup, l)}
    IN /\ results.links.links_with_issues = Cardinality(with_issues)
       /\ results.links.links_with_issues <= results.links.total_links
       /\ Len(results.links.link_issues) = Min(20, Len(IssuesByLink(soup, FALSE)))

OnclickMessage ==
  "Element with onclick handler may not be keyboard accessible: {} (id: {}, class: {})"

TabindexMessage ==
  "Element with tabindex > 0 found, which can disrupt keyboard navigation: {} (id: {}, class: {})"

\* the text is an integer greater than zero: decimal digits, not all of them 0
PositiveInteger(s) ==
  /\ s # <<>>
  /\ \A c \in 1..Len(s) : s[c] \in {"0", "1", "2", "3", "4", "5", "6", "7", "8", "9"}
  /\ \E c \in 1..Len(s) : s[c] # "0"

\* C16: the keyboard issues are exactly one entry per element with an onclick
\* handler that is not exempt (exempt: an a, button, input, select or
\* textarea, or with an onkeypress, onkeydown or onkeyup handler, or with any
\* tabindex), and one entry per element whose tabindex is an integer greater
\* than zero; a tabindex that is zero, negative, absent or not an integer is
\* never flagged and never aborts the checker; problematic_tabindex is the
\* number of the tabindex entries.
C16_KeyboardIssues ==
  Analyzed =>
    LET soup == BeautifulSoup(html_content)
        elements == SelectSeq([k \in 1..Len(soup) |-> k], LAMBDA k : soup[k].name # "#text")
        exempt(k) == \/ soup[k].name \in {"a", "button", "input", "select", "textarea"}
                     \/ DOMAIN soup[k].attrs \cap {"onkeypress", "onkeydown", "onkeyup"} # {}
                     \/ "tabindex" \in DOMAIN soup[k].attrs
        clickable == SelectSeq(elements, LAMBDA k : "onclick" \in DOMAIN soup[k].attrs /\ ~exempt(k))
        positive == SelectSeq(elements, LAMBDA k : /\ "tabindex" \in DOMAIN soup[k].attrs
                                                   /\ PositiveInteger(soup[k].attrs.tabindex))
        r == results.keyboard_accessibility
        entries(msg) == SelectSeq(r.keyboard_issues, LAMBDA issue : issue.msg = msg)
    IN /\ Len(r.keyboard_issues) = Len(clickable) + Len(positive)
       /\ entries(OnclickMessage) =
            [n \in 1..Len(clickable) |-> Message(OnclickMessage, element_description(soup, clickable[n]))]
       /\ entries(TabindexMessage) =
            [n \in 1..Len(positive) |-> Message(TabindexMessage, element_description(soup, positive[n]))]
       /\ r.problematic_tabindex = Len(entries(TabindexMessage))

\* a clickable div with the tabindex 5 and a clickable div with the tabindex
\* of the superscript two: one tabindex entry, for the first, and no other
C16_Witness ==
  /\ pc = "analyzed"
  /\ html_content = Page(Element("div", [onclick |-> <<"f">>, tabindex |-> <<"5">>], <<>>)
                         \o Element("div", [onclick |-> <<"f">>, tabindex |-> <<"^2">>], <<>>))
  /\ Len(results.keyboard_accessibility.keyboard_issues) = 1
  /\ results.keyboard_accessibility.keyboard_issues[1].msg = TabindexMessage
  /\ results.keyboard_accessibility.problematic_tabindex = 1

\* C17: for every count n >= 0 the deductions are min(15, 5n) for heading
\* issues, min(15, 5n) for forms with issues, min(10, 5n) for landmark
\* issues, min(15, 3n) for keyboard issues, min(10, 3n) for tables with
\* issues, and a flat 5 exactly when the html element declares no lang; each
\* is applied only when n > 0 and capped independently of the others.
C17_CountDeductions ==
  /\ pc = "scored" =>
       LET counted(label, n, each, cap) ==
             /\ Applied(label) = (IF each * n < cap THEN each * n ELSE cap)
             /\ Listed(label) <=> n > 0
       IN /\ counted("Heading structure issues", Len(results.heading_structure.issues), 5, 15)
          /\ counted("Form accessibility issues", results.form_accessibility.forms_with_issues, 5, 15)
          /\ counted("Landmark/ARIA issues", Len(results.landmarks_aria.issues), 5, 10)
          /\ counted("Keyboard accessibility issues",
                     Len(results.keyboard_accessibility.keyboard_issues), 3, 15)
          /\ counted("Table accessibility issues", results.tables.tables_with_issues, 3, 10)
          /\ Applied("Language not specified") = (IF results.language.language_specified THEN 0 ELSE 5)
          /\ Listed("Language not specified") <=> ~results.language.language_specified
  /\ Analyzed /\ html_content # None =>
       LET html == start_tags(html_content, "html")
       IN results.language.language_specified <=> (html # <<>> /\ "lang" \in DOMAIN html[1].attrs)

\* every count beyond its cap and no language: 15 + 15 + 10 + 15 + 10 + 5
C17_Witness ==
  /\ pc = "scored"
  /\ Len(results.heading_structure.issues) = 4
  /\ results.form_accessibility.forms_with_issues = 4
  /\ Len(results.landmarks_aria.issues) = 3
  /\ Len(results.keyboard_accessibility.keyboard_issues) = 6
  /\ results.tables.tables_with_issues = 4
  /\ ~results.language.language_specified
  /\ score_results.score = 30

\* C18: color_properties holds at most 20 entries, the first 20 color
\* properties extracted in source order; common_classes holds at most 10
\* class names, those that occur most often, by descending count, and of
\* those with the same count the one first seen in the source first.
C18_ColorCaps ==
  Analyzed =>
    LET styled == SelectSeq(html_content, LAMBDA t : t.type = "start" /\ "style" \in DOMAIN t.attrs)
        of_style(style) ==
          (IF property_match(style, S_color) = None THEN <<>>
           ELSE <<Message("Text color: {}", <<property_match(style, S_color)>>)>>)
          \o (IF property_match(style, S_bgcolor) = None THEN <<>>
              ELSE <<Message("Background color: {}", <<property_match(style, S_bgcolor)>>)>>)
        extracted == joined([k \in 1..Len(styled) |-> of_style(styled[k].attrs.style)])
        classed == SelectSeq(html_content, LAMBDA t : t.type = "start" /\ "class" \in DOMAIN t.attrs)
        names == joined([k \in 1..Len(classed) |-> split(classed[k].attrs.class)])
        classes == {names[k] : k \in 1..Len(names)}
        count(c) == Cardinality({k \in 1..Len(names) : names[k] = c})
        seen(c) == CHOOSE k \in 1..Len(names) : names[k] = c /\ \A j \in 1..(k - 1) : names[j] # c
        before(c) == {d \in classes : \/ count(d) > count(c)
                                      \/ count(d) = count(c) /\ seen(d) < seen(c)}
        r == results.color_contrast
    IN /\ Len(r.color_properties) = Min(20, Len(extracted))
       /\ \A k \in 1..Len(r.color_properties) : r.color_properties[k] = extracted[k]
       /\ Len(r.common_classes) = Min(10, Cardinality(classes))
       /\ \A k \in 1..Len(r.common_classes) :
            /\ r.common_classes[k].cls \in classes
            /\ Cardinality(before(r.common_classes[k].cls)) = k - 1
            /\ r.common_classes[k].count = count(r.common_classes[k].cls)

\* 22 color properties and 12 classes, class i occurring i times: 20
\* properties are kept, and the classes 12 down to 3
C18_Witness ==
  /\ pc = "analyzed"
  /\ html_content = Page(joined([j \in 1..11 |-> StyledElement(j, "both")])
                         \o ClassRounds(12, [i \in 1..12 |-> i], 1))
  /\ Len(results.color_contrast.color_properties) = 20
  /\ results.color_contrast.color_properties[20] = Message("Background color: {}", <<str(10)>>)
  /\ [k \in 1..10 |-> results.color_contrast.common_classes[k].cls] = [k \in 1..10 |-> str(13 - k)]

\* the cap of each source of deductions, in the order of the sources
DeductionCaps == <<15, 15, 15, 10, 15, 10, 5, 15>>

RECURSIVE SumTo(_, _)
\* f[1] + ... + f[n]
SumTo(f, n) == IF n = 0 THEN 0 ELSE f[n] + SumTo(f, n - 1)

\* C19: the caps of the eight deductions sum to exactly 100, so the score
\* returned is 100 minus the sum of the points of the deductions listed,
\* every deduction is within its cap, and the final clamp to 0..100 never
\* changes the value.
C19_ScoreIsHundredMinusDeductions ==
  /\ SumTo(DeductionCaps, Len(DeductionCaps)) = 100
  /\ pc = "scored" =>
       LET points == [i \in 1..Len(DeductionOrder) |-> Applied(DeductionOrder[i])]
           unclamped == 100 - SumTo(points, Len(points))
       IN /\ \A i \in 1..Len(points) : points[i] \in 0..DeductionCaps[i]
          /\ \A k \in 1..Len(score_results.deductions) :
               \E i \in 1..Len(DeductionOrder) :
                  /\ score_results.deductions[k].label = DeductionOrder[i]
                  /\ score_results.deductions[k].points = points[i]
          /\ unclamped \in 0..100
          /\ score_results.score = unclamped

\* every deduction at its cap: a score of 0, not clamped
C19_Witness ==
  /\ pc = "scored"
  /\ \A i \in 1..Len(DeductionOrder) : Applied(DeductionOrder[i]) = DeductionCaps[i]
  /\ score_results.score = 0

\* C21: every line item of the deductions has a point value that is an
\* integer of at least 1 and at most the cap of its source; a source whose
\* deduction comes to 0 points (1 image without alt text out of 100, say)
\* adds no line item.
C21_LineItemsAtLeastOnePoint ==
  pc = "scored" =>
    \A k \in 1..Len(score_results.deductions) :
       \E i \in 1..Len(DeductionOrder) :
          /\ score_results.deductions[k].label = DeductionOrder[i]
          /\ score_results.deductions[k].points \in 1..DeductionCaps[i]

====
